---- MODULE Spec2Model ----
(***************************************************************************)
(* Model of bot.py (desks_duels_bot): the per-recipient notification       *)
(* state, the /notify toggle, the socket feed handlers duelRequest and     *)
(* duelDeclined with their per-event loops, the scheduled broadcast        *)
(* send_notifications with the directory fetch, and the scheduler set up   *)
(* by lifespan.                                                            *)
(***************************************************************************)
EXTENDS FiniteSets, Integers, Sequences, TLC

\* ------------------------------------------------------------------------
\* Bounds
\* ------------------------------------------------------------------------
\* Telegram user ids are 1..MaxUsers
MaxUsers == 2
\* seat ids carried by feed events are 1..MaxSeat
MaxSeat == 1
\* /notify commands handled in one behaviour
MaxToggles == 5
\* /notify commands handled in a behaviour that also has feed events or
\* broadcasts
MaxBusyToggles == 2

UserIds == 1..MaxUsers

\* ------------------------------------------------------------------------
\* Python values that flow through the handlers
\* ------------------------------------------------------------------------
\* a key that is missing from a dict (not a Python value: dict.get sees it)
Absent == [t |-> "absent", n |-> 0, s |-> ""]
PyNone == [t |-> "none", n |-> 0, s |-> ""]
PyInt(k) == [t |-> "int", n |-> k, s |-> ""]
PyStr(x) == [t |-> "str", n |-> 0, s |-> x]

Digit(d) ==
    CASE d = 0 -> "0" [] d = 1 -> "1" [] d = 2 -> "2" [] d = 3 -> "3"
      [] d = 4 -> "4" [] d = 5 -> "5" [] d = 6 -> "6" [] d = 7 -> "7"
      [] d = 8 -> "8" [] d = 9 -> "9"

RECURSIVE IntToStr(_)
IntToStr(k) == IF k < 10 THEN Digit(k) ELSE IntToStr(k \div 10) \o Digit(k % 10)

\* str(v): the text of a Python value
str(v) ==
    CASE v.t = "none" -> "None"
      [] v.t = "int" -> IntToStr(v.n)
      [] v.t = "str" -> v.s

\* bool(v): the truth value of a Python value
Truthy(v) ==
    CASE v.t = "none" -> FALSE
      [] v.t = "int" -> v.n # 0
      [] v.t = "str" -> v.s # ""

\* d.get(key, default) on the value stored under the key (Absent: no key)
DictGet(v, default) == IF v.t = "absent" THEN default ELSE v

\* notifications_state.get(key, default)
StateGet(d, k, default) == IF k \in DOMAIN d THEN d[k] ELSE default

\* notifications_state[key] = value
StatePut(d, k, v) == [x \in (DOMAIN d) \cup {k} |-> IF x = k THEN v ELSE d[x]]

\* ------------------------------------------------------------------------
\* State
\* ------------------------------------------------------------------------
VARIABLES
    notifications_state,    \* dict: str(user id) -> bool, absent = enabled
    notifications_enabled,  \* global flag read by the broadcast
    toggle_pc,              \* position of each user's /notify handler
    toggles,                \* number of /notify commands taken up so far
    hist,                   \* per user: the state seen before each of its toggles
    feed,                   \* the feed handler invocation on the socket thread
    priorBad,               \* an earlier feed event was malformed or failed
    dispatch,               \* the last send_notifications invocation
    scheduler,              \* the scheduler instances: jobs and running flag
    app,                    \* lifespan phase
    tick                    \* the last wall-clock minute and what fired in it

vars == <<notifications_state, notifications_enabled, toggle_pc, toggles, hist, feed,
          priorBad, dispatch, scheduler, app, tick>>

\* ------------------------------------------------------------------------
\* /notify
\* ------------------------------------------------------------------------
\* a recipient's notification state: the entry, enabled when there is none
Effective(d, k) == IF k \in DOMAIN d THEN d[k] ELSE TRUE

\* the flip that switches off whatever the state was
ToggleFlip_sets_off(d, user_id) == StatePut(d, user_id, FALSE)

\* the flip that rebuilds the dict with the one entry only
ToggleFlip_overwrite(d, user_id) ==
    [x \in {user_id} |-> ~StateGet(d, user_id, TRUE)]

\* the flip with the default the wrong way round
ToggleFlip_default_off(d, user_id) == StatePut(d, user_id, ~StateGet(d, user_id, FALSE))

\* the flip that flips every entry there is
ToggleFlip_flips_all(d, user_id) ==
    [x \in (DOMAIN d) \cup {user_id} |-> ~StateGet(d, x, TRUE)]

\* lines 432-435: the flip; no await before it
ToggleFlip(d, user_id) == StatePut(d, user_id, ~StateGet(d, user_id, TRUE))

toggle_notifications(u) ==
    /\ toggle_pc[u] = "idle"
    /\ toggles < MaxToggles
    /\ toggles' = toggles + 1
    /\ hist' = [hist EXCEPT ![u] =
                  Append(@, Effective(notifications_state, str(PyInt(u))))]
    /\ notifications_state' = ToggleFlip(notifications_state, str(PyInt(u)))
    /\ toggle_pc' = [toggle_pc EXCEPT ![u] = "reply"]
    /\ UNCHANGED <<notifications_enabled, feed, priorBad, dispatch, scheduler, app, tick>>

\* lines 448-455: the reply; on failure the except branch runs
toggle_reply(u, ok) ==
    /\ toggle_pc[u] = "reply"
    /\ toggle_pc' = [toggle_pc EXCEPT ![u] = IF ok THEN "idle" ELSE "error_reply"]
    /\ UNCHANGED <<notifications_state, notifications_enabled, toggles, hist, feed, priorBad,
                   dispatch, scheduler, app, tick>>

\* the except branch that puts the state seen before the command back
toggle_error_reply_rollback(u) ==
    /\ toggle_pc[u] = "error_reply"
    /\ toggle_pc' = [toggle_pc EXCEPT ![u] = "idle"]
    /\ notifications_state' =
         StatePut(notifications_state, str(PyInt(u)), hist[u][Len(hist[u])])
    /\ UNCHANGED <<notifications_enabled, toggles, hist, feed, priorBad,
                   dispatch, scheduler, app, tick>>

\* lines 457-459: log and tell the user that the change failed
toggle_error_reply(u) ==
    /\ toggle_pc[u] = "error_reply"
    /\ toggle_pc' = [toggle_pc EXCEPT ![u] = "idle"]
    /\ UNCHANGED <<notifications_state, notifications_enabled, toggles, hist, feed, priorBad,
                   dispatch, scheduler, app, tick>>

\* ------------------------------------------------------------------------
\* Feed events (socket thread)
\* ------------------------------------------------------------------------
TargetVals ==
    {Absent, PyNone} \cup {PyInt(u) : u \in UserIds}
                    \cup {PyStr(IntToStr(u)) : u \in UserIds}
SeatVals == {Absent} \cup {PyInt(k) : k \in 1..MaxSeat}
NameVals == {Absent, PyStr("X")}

\* an event payload that is not a dict (data.get raises AttributeError)
NotDict ==
    [isDict |-> FALSE, challengedId |-> Absent, seatId |-> Absent,
     challengerName |-> Absent, duel |-> "absent", player2 |-> Absent,
     duelSeatId |-> Absent]

\* payloads of the duelRequest event
RequestPayloads ==
    {NotDict} \cup
    [isDict : {TRUE}, challengedId : TargetVals, seatId : SeatVals,
     challengerName : NameVals, duel : {"absent"}, player2 : {Absent},
     duelSeatId : {Absent}]

\* payloads of the duelDeclined event; 'duel' is missing, null or a dict
DeclinedPayloads ==
    {NotDict} \cup
    [isDict : {TRUE}, challengedId : {Absent}, seatId : {Absent},
     challengerName : NameVals, duel : {"absent", "none"}, player2 : {Absent},
     duelSeatId : {Absent}] \cup
    [isDict : {TRUE}, challengedId : {Absent}, seatId : {Absent},
     challengerName : NameVals, duel : {"dict"}, player2 : TargetVals,
     duelSeatId : SeatVals]

\* the chats the delivery channel knows: a send to any other chat id fails
ChatExists(chat_id) == chat_id \in {IntToStr(u) : u \in UserIds}

\* what the channel does with one send: it accepts it, it raises, or it
\* never answers (the await has no timeout around it)
Answers == {"ok", "error", "none"}

\* the arguments of one bot.send_message call
Message(kind, chat_id, challenger_name, seat_id) ==
    [kind |-> kind, chat_id |-> chat_id,
     challenger |-> str(challenger_name), seat |-> str(seat_id)]

IdleFeed ==
    [pc |-> "idle", handler |-> "none", data |-> NotDict, telegram_id |-> "",
     seat_id |-> PyNone, challenger_name |-> PyNone, loop |-> "none",
     muted |-> FALSE, flips |-> -1, calls |-> <<>>, log |-> <<>>,
     propagated |-> FALSE]

\* how often the user with this chat id has toggled so far
FlipsOf(h, telegram_id) ==
    IF \E u \in UserIds : IntToStr(u) = telegram_id
    THEN Len(h[CHOOSE u \in UserIds : IntToStr(u) = telegram_id])
    ELSE 0

\* the recipient has an entry and the entry is False
Muted(d) == {k \in DOMAIN d : d[k] = FALSE}

\* the previous invocation ended without a delivery or a mute skip
EndedBad(f) == f.pc = "returned" /\ f.log # <<"Delivered">> /\ f.log # <<"Skipped-Muted">>

\* duelRequest whose except branch swallows the error without a log line
duelRequest_except_silent(f) == [f EXCEPT !.pc = "returned"]

\* duelRequest without its except branch: the error reaches the caller
duelRequest_except_raises(f) == [f EXCEPT !.pc = "returned", !.propagated = TRUE]

\* lines 89-90: except Exception around the whole of duelRequest
duelRequest_except(f) ==
    [f EXCEPT !.pc = "returned", !.log = Append(f.log, "Failed")]

\* lines 139-140: except Exception around the whole of duelDeclined
duelDeclined_except(f) ==
    [f EXCEPT !.pc = "returned", !.log = Append(f.log, "Failed")]

\* lines 67-83: parse the event, create and install the event loop
duelRequest(data) ==
    /\ feed.pc \in {"idle", "returned"}
    /\ LET f == [IdleFeed EXCEPT !.handler = "duelRequest", !.data = data]
       IN feed' = IF ~data.isDict
                  THEN duelRequest_except(f)
                  ELSE [f EXCEPT
                          !.pc = "check",
                          !.telegram_id = str(DictGet(data.challengedId, PyNone)),
                          !.seat_id = DictGet(data.seatId, PyNone),
                          !.challenger_name = DictGet(data.challengerName, PyNone),
                          !.loop = "open"]
    /\ priorBad' = (priorBad \/ EndedBad(feed))
    /\ UNCHANGED <<notifications_state, notifications_enabled, toggle_pc, toggles, hist,
                   dispatch, scheduler, app, tick>>

\* lines 117-133: duel = data.get('duel', {}); duel.get raises on a null duel
duelDeclined(data) ==
    /\ feed.pc \in {"idle", "returned"}
    /\ LET f == [IdleFeed EXCEPT !.handler = "duelDeclined", !.data = data]
       IN feed' = IF ~data.isDict \/ data.duel = "none"
                  THEN duelDeclined_except(f)
                  ELSE [f EXCEPT
                          !.pc = "check",
                          !.telegram_id = str(DictGet(data.player2, PyNone)),
                          !.seat_id = DictGet(data.duelSeatId, PyNone),
                          !.challenger_name =
                              DictGet(data.challengerName, PyStr("Sopernik")),
                          !.loop = "open"]
    /\ priorBad' = (priorBad \/ EndedBad(feed))
    /\ UNCHANGED <<notifications_state, notifications_enabled, toggle_pc, toggles, hist,
                   dispatch, scheduler, app, tick>>

\* the mute check that never finds anybody switched off
is_enabled_always(d, telegram_id) == TRUE

\* the mute check with the default the wrong way round
is_enabled_default_off(d, telegram_id) == StateGet(d, telegram_id, FALSE)

\* lines 94 and 143: notifications_state.get(telegram_id, True)
is_enabled(d, telegram_id) == StateGet(d, telegram_id, TRUE)

\* lines 94-96: the mute check of send_duel_notification
send_duel_notification_check ==
    /\ feed.pc = "check" /\ feed.handler = "duelRequest"
    /\ LET f == [feed EXCEPT !.muted = feed.telegram_id \in Muted(notifications_state),
                             !.flips = FlipsOf(hist, feed.telegram_id)]
       IN feed' = IF ~is_enabled(notifications_state, feed.telegram_id)
                  THEN [f EXCEPT !.pc = "close",
                                 !.log = Append(feed.log, "Skipped-Muted")]
                  ELSE [f EXCEPT !.pc = "send"]
    /\ UNCHANGED <<notifications_state, notifications_enabled, toggle_pc, toggles, hist,
                   priorBad, dispatch, scheduler, app, tick>>

\* lines 98-114: one bot.send_message call; its exception is caught and logged
\* (pc "awaiting": the await never completes and run_until_complete blocks
\* the socket thread, so no step of the handler follows)
send_duel_notification_send(answer) ==
    /\ feed.pc = "send" /\ feed.handler = "duelRequest"
    /\ answer = "ok" => ChatExists(feed.telegram_id)
    /\ feed' = [feed EXCEPT
                  !.pc = IF answer = "none" THEN "awaiting" ELSE "close",
                  !.calls = Append(feed.calls,
                      Message("duel", feed.telegram_id, feed.challenger_name,
                              feed.seat_id)),
                  !.log = CASE answer = "ok" -> Append(feed.log, "Delivered")
                            [] answer = "error" -> Append(feed.log, "Failed")
                            [] answer = "none" -> feed.log]
    /\ UNCHANGED <<notifications_state, notifications_enabled, toggle_pc, toggles, hist,
                   priorBad, dispatch, scheduler, app, tick>>

\* lines 143-145: the mute check of send_decline_notification
send_decline_notification_check ==
    /\ feed.pc = "check" /\ feed.handler = "duelDeclined"
    /\ LET f == [feed EXCEPT !.muted = feed.telegram_id \in Muted(notifications_state),
                             !.flips = FlipsOf(hist, feed.telegram_id)]
       IN feed' = IF ~is_enabled(notifications_state, feed.telegram_id)
                  THEN [f EXCEPT !.pc = "close",
                                 !.log = Append(feed.log, "Skipped-Muted")]
                  ELSE [f EXCEPT !.pc = "send"]
    /\ UNCHANGED <<notifications_state, notifications_enabled, toggle_pc, toggles, hist,
                   priorBad, dispatch, scheduler, app, tick>>

\* lines 147-163: one bot.send_message call; its exception is caught and logged
send_decline_notification_send(answer) ==
    /\ feed.pc = "send" /\ feed.handler = "duelDeclined"
    /\ answer = "ok" => ChatExists(feed.telegram_id)
    /\ feed' = [feed EXCEPT
                  !.pc = IF answer = "none" THEN "awaiting" ELSE "close",
                  !.calls = Append(feed.calls,
                      Message("decline", feed.telegram_id, feed.challenger_name,
                              feed.seat_id)),
                  !.log = CASE answer = "ok" -> Append(feed.log, "Delivered")
                            [] answer = "error" -> Append(feed.log, "Failed")
                            [] answer = "none" -> feed.log]
    /\ UNCHANGED <<notifications_state, notifications_enabled, toggle_pc, toggles, hist,
                   priorBad, dispatch, scheduler, app, tick>>

\* the handler returning without the finally that closes the loop
loop_close_leak ==
    /\ feed.pc = "close"
    /\ feed' = [feed EXCEPT !.pc = "returned"]
    /\ UNCHANGED <<notifications_state, notifications_enabled, toggle_pc, toggles, hist,
                   priorBad, dispatch, scheduler, app, tick>>

\* lines 86-87 and 136-137: finally loop.close(), then the handler returns
loop_close ==
    /\ feed.pc = "close"
    /\ feed' = [feed EXCEPT !.pc = "returned", !.loop = "closed"]
    /\ UNCHANGED <<notifications_state, notifications_enabled, toggle_pc, toggles, hist,
                   priorBad, dispatch, scheduler, app, tick>>

\* ------------------------------------------------------------------------
\* Directory fetch
\* ------------------------------------------------------------------------
\* the user objects of GET /users of a set of users, in id order; the
\* backend stores telegramId as text (line 400)
RECURSIVE UserEntries(_)
UserEntries(S) ==
    IF S = {} THEN <<>>
    ELSE LET u == CHOOSE x \in S : \A y \in S : x <= y
         IN <<[telegramId |-> PyStr(IntToStr(u))]>> \o UserEntries(S \ {u})

\* the directory lists each of its users once, after at most one object
\* whose telegramId is missing or empty
DirBodies ==
    {bad \o UserEntries(S) :
        bad \in {<<>>, <<[telegramId |-> Absent]>>, <<[telegramId |-> PyStr("")]>>},
        S \in SUBSET UserIds}

\* what the HTTP exchange of session.request does: a transport error
\* (aiohttp.ClientError), another error (timeout, undecodable body), a
\* JSON body, or a body of another content type
HttpOutcomes ==
    [kind : {"client_error", "other_error", "text"}, body : {<<>>}] \cup
    [kind : {"json"}, body : DirBodies]

Raise(exc) == [exc |-> exc, val |-> [t |-> "none", items |-> <<>>]]
Return(v) == [exc |-> "none", val |-> v]
PyList(items) == [t |-> "list", items |-> items]
PyText == [t |-> "str", items |-> <<>>]

\* issubclass(exc, base) for the exception classes that occur
IsSubclass(exc, base) == base = "Exception" \/ exc = base

\* lines 243-265: returns the parsed JSON or the text, re-raises any error
make_request(http) ==
    CASE http.kind = "client_error" -> Raise("aiohttp.ClientError")
      [] http.kind = "other_error" -> Raise("asyncio.TimeoutError")
      [] http.kind = "json" -> Return(PyList(http.body))
      [] http.kind = "text" -> Return(PyText)

\* a list and a str have no attribute 'json'; a response object would
HasJsonMethod(v) == v.t = "response"

\* get_all_users that hands on what make_request returned
get_all_users_returns_body(http) == make_request(http)

\* lines 267-274: response.json() on what make_request returned; only
\* requests.RequestException is turned into []
get_all_users(http) ==
    LET response == make_request(http)
    IN IF response.exc # "none"
       THEN IF IsSubclass(response.exc, "requests.RequestException")
            THEN Return(PyList(<<>>))
            ELSE response
       ELSE IF HasJsonMethod(response.val)
            THEN Return(response.val)
            ELSE Raise("AttributeError")

\* ------------------------------------------------------------------------
\* Broadcast
\* ------------------------------------------------------------------------
\* lines 276-294: one send to telegram_id; chan is the set of chats for
\* which the delivery channel fails
notify_user(enabled, telegram_id, chan) ==
    IF ~enabled
    THEN [exc |-> "none", calls |-> <<>>, log |-> <<"disabled">>]
    ELSE LET ok == ChatExists(str(telegram_id)) /\ str(telegram_id) \notin chan
         IN [exc |-> "none",
             calls |-> <<[chat_id |-> telegram_id, ok |-> ok]>>,
             log |-> <<IF ok THEN "sent" ELSE "send_error">>]

\* asyncio.gather(*tasks): runs every task; the first exception is raised
\* to the caller while the other tasks run on
RECURSIVE gather(_, _, _)
gather(enabled, tasks, chan) ==
    IF tasks = <<>>
    THEN [exc |-> "none", calls |-> <<>>, log |-> <<>>]
    ELSE LET first == notify_user(enabled, Head(tasks), chan)
             rest == gather(enabled, Tail(tasks), chan)
         IN [exc |-> IF first.exc # "none" THEN first.exc ELSE rest.exc,
             calls |-> first.calls \o rest.calls,
             log |-> first.log \o rest.log]

NoDispatch ==
    [pc |-> "none", http |-> [kind |-> "text", body |-> <<>>], chan |-> {},
     muted |-> {}, fetch |-> Return(PyList(<<>>)),
     calls |-> <<>>, log |-> <<>>, propagated |-> FALSE]

\* send_notifications without its except branch
send_notifications_except_raises(d, exc) == [d EXCEPT !.propagated = TRUE]

\* lines 317-318: except Exception around the body of send_notifications
send_notifications_except(d, exc) ==
    [d EXCEPT !.log = Append(d.log, "error"), !.propagated = FALSE]

\* lines 307-313: the ids of the entries that have one
Tasks(users) ==
    LET ids == [i \in 1..Len(users) |-> DictGet(users[i].telegramId, PyNone)]
    IN SelectSeq(ids, Truthy)

\* lines 296-318: one run of send_notifications
send_notifications_run(enabled, http, chan) ==
    LET d == [NoDispatch EXCEPT !.pc = "done", !.http = http, !.chan = chan]
    IN IF ~enabled
       THEN [d EXCEPT !.log = <<"disabled">>]
       ELSE LET users == get_all_users(http)
                e == [d EXCEPT !.fetch = users]
            IN IF users.exc # "none"
               THEN send_notifications_except(e, users.exc)
               ELSE IF users.val.items = <<>>
               THEN [e EXCEPT !.log = <<"no_users">>]
               ELSE LET tasks == Tasks(users.val.items)
                        g == gather(enabled, tasks, chan)
                        done == [e EXCEPT !.calls = g.calls, !.log = g.log]
                    IN IF g.exc # "none"
                       THEN send_notifications_except(done, g.exc)
                       ELSE done

\* the channel fails for no chat or for one
Chans == {{}} \cup {{IntToStr(u)} : u \in UserIds}

\* the run, with the listed recipients that were switched off when it ran
Dispatched(http, chan) ==
    [send_notifications_run(notifications_enabled, http, chan)
        EXCEPT !.muted = Muted(notifications_state) \cap
                         {str(Tasks(http.body)[i]) : i \in 1..Len(Tasks(http.body))}]

\* one invocation of the coroutine send_notifications
send_notifications(http, chan) ==
    /\ dispatch' = Dispatched(http, chan)
    /\ UNCHANGED <<notifications_state, notifications_enabled, toggle_pc, toggles, hist, feed,
                   priorBad, scheduler, app, tick>>

\* ------------------------------------------------------------------------
\* Scheduler and lifespan
\* ------------------------------------------------------------------------
\* the AsyncIOScheduler objects: the module-level one (line 226) and the
\* one lifespan creates in its local variable (line 558)
Instances == {"module", "lifespan"}

\* lines 321-329, each "HH:MM" split and converted by int
lesson_times ==
    <<(<<7, 35>>), (<<9, 25>>), (<<10, 15>>), (<<11, 15>>), (<<12, 15>>),
      (<<13, 5>>), (<<13, 55>>)>>

\* day_of_week="mon-fri", Monday = 1
MonFri == 1..5

\* lines 333-340: the cron job of one lesson time
Job(hm) ==
    [id |-> "notification_" \o IntToStr(hm[1]) \o "_" \o IntToStr(hm[2]),
     hour |-> hm[1], minute |-> hm[2], day_of_week |-> MonFri]

\* lines 320-340: the name scheduler inside schedule_notifications is the
\* module-level object
schedule_notifications(s) ==
    [s EXCEPT !["module"].jobs =
        @ \cup {Job(lesson_times[i]) : i \in 1..Len(lesson_times)}]

\* lines 556-570: a new scheduler in a local variable, the jobs, the start
lifespan_startup ==
    /\ app = "init"
    /\ LET created == [scheduler EXCEPT !["lifespan"] =
                          [created |-> TRUE, jobs |-> {}, running |-> FALSE]]
           scheduled == schedule_notifications(created)
       IN scheduler' = [scheduled EXCEPT !["lifespan"].running = TRUE]
    /\ app' = "started"
    /\ UNCHANGED <<notifications_state, notifications_enabled, toggle_pc, toggles, hist, feed,
                   priorBad, dispatch, tick>>

\* lines 574-576: shutdown of the scheduler lifespan created
lifespan_shutdown ==
    /\ app = "started"
    /\ scheduler' = [scheduler EXCEPT !["lifespan"].running = FALSE]
    /\ app' = "stopped"
    /\ UNCHANGED <<notifications_state, notifications_enabled, toggle_pc, toggles, hist, feed,
                   priorBad, dispatch, tick>>

\* the jobs a running scheduler fires in the minute hm of the weekday day
Due(s, day, hm) ==
    {ij \in UNION {{<<i, j>> : j \in s[i].jobs} : i \in Instances} :
        /\ s[ij[1]].running
        /\ ij[2].hour = hm[1] /\ ij[2].minute = hm[2]
        /\ day \in ij[2].day_of_week}

\* the minutes the clock is observed at: the lesson times and one other
ClockTimes == {lesson_times[i] : i \in 1..Len(lesson_times)} \cup {<<8, 0>>}
Weekdays == 1..7

\* the wall clock reaches a weekday and minute; every due job of a running
\* scheduler calls send_notifications
Tick(day, hm) ==
    /\ LET due == Due(scheduler, day, hm)
       IN /\ tick' = [day |-> day, hour |-> hm[1], minute |-> hm[2],
                      fired |-> Cardinality(due), app |-> app]
          /\ IF due # {}
             THEN \E http \in HttpOutcomes, chan \in Chans :
                     dispatch' = Dispatched(http, chan)
             ELSE UNCHANGED dispatch
    /\ UNCHANGED <<notifications_state, notifications_enabled, toggle_pc, toggles, hist, feed,
                   priorBad, scheduler, app>>

\* ------------------------------------------------------------------------
\* Specifications
\* ------------------------------------------------------------------------
Init ==
    /\ notifications_state = [k \in {} |-> TRUE]
    /\ notifications_enabled = TRUE
    /\ toggle_pc = [u \in UserIds |-> "idle"]
    /\ toggles = 0
    /\ hist = [u \in UserIds |-> <<>>]
    /\ feed = IdleFeed
    /\ priorBad = FALSE
    /\ dispatch = NoDispatch
    /\ scheduler = [i \in Instances |->
                      [created |-> (i = "module"), jobs |-> {}, running |-> FALSE]]
    /\ app = "init"
    /\ tick = [day |-> 0, hour |-> 0, minute |-> 0, fired |-> 0, app |-> "init"]

ToggleStart == \E u \in UserIds : toggle_notifications(u)

ToggleFinish ==
    \/ \E u \in UserIds, ok \in BOOLEAN : toggle_reply(u, ok)
    \/ \E u \in UserIds : toggle_error_reply(u)

Toggle == ToggleStart \/ ToggleFinish

\* the /notify handlers next to other activity
BusyToggle == (toggles < MaxBusyToggles /\ ToggleStart) \/ ToggleFinish

Feed ==
    \/ \E data \in RequestPayloads : duelRequest(data)
    \/ \E data \in DeclinedPayloads : duelDeclined(data)
    \/ send_duel_notification_check
    \/ \E answer \in Answers : send_duel_notification_send(answer)
    \/ send_decline_notification_check
    \/ \E answer \in Answers : send_decline_notification_send(answer)
    \/ loop_close

Broadcast == \E http \in HttpOutcomes, chan \in Chans : send_notifications(http, chan)

Lifecycle ==
    \/ lifespan_startup
    \/ lifespan_shutdown
    \/ \E day \in Weekdays, hm \in ClockTimes : Tick(day, hm)

\* the feed handlers on the socket thread next to the /notify handlers
FeedNext == BusyToggle \/ Feed
FeedSpec == Init /\ [][FeedNext]_vars

\* the socket thread goes on with a handler whenever the handler can go on
FeedFairSpec == FeedSpec /\ WF_vars(Feed)

\* broadcasts next to the /notify handlers
BroadcastNext == BusyToggle \/ Broadcast
BroadcastSpec == Init /\ [][BroadcastNext]_vars

\* one malformed and one well-formed payload per user and event
FrameRequests ==
    {NotDict} \cup {d \in RequestPayloads :
        d.isDict /\ d.challengedId.t = "int" /\ d.seatId.t = "int"
                 /\ d.challengerName.t = "str"}
FrameDeclines ==
    {NotDict} \cup {d \in DeclinedPayloads :
        d.isDict /\ d.duel = "dict" /\ d.player2.t = "int" /\ d.duelSeatId.t = "int"
                 /\ d.challengerName.t = "str"}

\* a transport error, or the directory of all users
FrameHttp ==
    {h \in HttpOutcomes :
        h.kind = "client_error" \/ (h.kind = "json" /\ h.body = UserEntries(UserIds))}

\* /notify handlers, feed handlers and broadcasts together, on fewer inputs
FrameNext ==
    \/ BusyToggle
    \/ \E data \in FrameRequests : duelRequest(data)
    \/ \E data \in FrameDeclines : duelDeclined(data)
    \/ send_duel_notification_check
    \/ \E answer \in Answers : send_duel_notification_send(answer)
    \/ send_decline_notification_check
    \/ \E answer \in Answers : send_decline_notification_send(answer)
    \/ loop_close
    \/ \E http \in FrameHttp : send_notifications(http, {})
FrameSpec == Init /\ [][FrameNext]_vars

\* the /notify handlers alone
ToggleSpec == Init /\ [][Toggle]_vars

\* the application lifecycle and the clock
AppNext == Lifecycle
AppSpec == Init /\ [][AppNext]_vars

Next == Toggle \/ Feed \/ Broadcast \/ Lifecycle
Spec == Init /\ [][Next]_vars

\* ------------------------------------------------------------------------
\* Properties
\* ------------------------------------------------------------------------
\* the recipients a directory body resolves to
Recipients(body) == {str(Tasks(body)[i]) : i \in 1..Len(Tasks(body))}

\* the send_message calls of the last broadcast that are addressed to r
CallsTo(r) == {i \in 1..Len(dispatch.calls) : str(dispatch.calls[i].chat_id) = r}

\* C1: a broadcast makes no send_message call addressed to a recipient
\* whose notifications were switched off when the broadcast ran.
C1_MutedNotSent ==
    dispatch.pc = "done" => \A r \in dispatch.muted : CallsTo(r) = {}

\* a broadcast has run over a directory that lists a switched-off recipient
C1_Witness ==
    /\ dispatch.pc = "done"
    /\ dispatch.http.kind = "json"
    /\ Recipients(dispatch.http.body) \cap dispatch.muted # {}

\* C2: when the directory lists N recipients and the send fails for exactly
\* one of them, each of the other N-1 gets a delivery attempt and no error
\* leaves send_notifications.
C2_OthersAttempted ==
    (/\ dispatch.pc = "done"
     /\ dispatch.http.kind = "json"
     /\ Cardinality(Recipients(dispatch.http.body) \cap dispatch.chan) = 1)
    => /\ \A r \in Recipients(dispatch.http.body) \ dispatch.chan : CallsTo(r) # {}
       /\ ~dispatch.propagated

\* C3: a feed event has exactly one outcome (Delivered, Skipped-Muted or
\* Failed) when its handler returns, and never more than one delivery call.
C3_OneOutcome ==
    /\ Len(feed.calls) <= 1
    /\ Len(feed.log) <= 1
    /\ feed.pc = "returned" =>
          /\ Len(feed.log) = 1
          /\ feed.log[1] \in {"Delivered", "Skipped-Muted", "Failed"}
          /\ feed.log[1] = "Delivered" => Len(feed.calls) = 1
          /\ feed.log[1] = "Skipped-Muted" => feed.calls = <<>>

\* a handler has returned after its one delivery call failed
C3_Witness ==
    feed.pc = "returned" /\ feed.log = <<"Failed">> /\ Len(feed.calls) = 1

\* the event has no target recipient field
LacksTarget(f) ==
    \/ f.handler = "duelRequest" /\ f.data.isDict /\ f.data.challengedId.t = "absent"
    \/ /\ f.handler = "duelDeclined" /\ f.data.isDict
       /\ \/ f.data.duel = "absent"
          \/ f.data.duel = "dict" /\ f.data.player2.t = "absent"

\* C4: a feed event without its target recipient field produces no
\* send_message call.
C4_MalformedNoSend == LacksTarget(feed) => feed.calls = <<>>

\* the event names a user as its target
ValidTarget(f) ==
    \/ f.handler = "duelRequest" /\ f.data.isDict
         /\ f.data.challengedId.t \in {"int", "str"}
    \/ f.handler = "duelDeclined" /\ f.data.isDict /\ f.data.duel = "dict"
         /\ f.data.player2.t \in {"int", "str"}

\* C5: no feed handler lets an exception out, and a valid event for a
\* recipient who is not muted at the check gets its delivery attempt,
\* whatever events came before.
C5_HandlersContain ==
    /\ ~feed.propagated
    /\ (feed.pc = "returned" /\ ValidTarget(feed) /\ ~feed.muted)
          => Len(feed.calls) = 1

\* a valid event got its delivery attempt after an earlier event went wrong
C5_Witness ==
    /\ priorBad
    /\ feed.pc = "returned" /\ ValidTarget(feed) /\ ~feed.muted
    /\ Len(feed.calls) = 1

\* the slots of the claim: the seven lesson times on Monday to Friday
IsSlot(t) ==
    /\ t.day \in 1..5
    /\ <<t.hour, t.minute>> \in
          {<<7, 35>>, <<9, 25>>, <<10, 15>>, <<11, 15>>, <<12, 15>>, <<13, 5>>,
           <<13, 55>>}

\* C6: once the application has started, the running scheduler fires
\* send_notifications exactly once at every configured slot.
C6_SlotFiresOnce == (tick.app = "started" /\ IsSlot(tick)) => tick.fired = 1

\* C7: send_notifications lets no exception out; when the directory fetch
\* fails the failure is logged and no send_message call is made.
C7_DispatchContains ==
    dispatch.pc = "done" =>
        /\ ~dispatch.propagated
        /\ dispatch.http.kind \in {"client_error", "other_error", "text"} =>
              /\ dispatch.calls = <<>>
              /\ dispatch.log = <<"error">>

\* a broadcast has run whose directory request met a transport error
C7_Witness ==
    /\ dispatch.pc = "done"
    /\ dispatch.http.kind = "client_error"
    /\ dispatch.log = <<"error">>

\* C8: on a transport error of the HTTP request get_all_users returns an
\* empty sequence instead of raising.
C8_FailSoft ==
    (dispatch.pc = "done" /\ dispatch.http.kind = "client_error")
    => dispatch.fetch = Return(PyList(<<>>))

\* C9: when the directory request succeeds and the channel works, every
\* unmuted recipient of the directory gets exactly one call and every
\* muted one gets none.
C9_BroadcastDelivers ==
    (/\ dispatch.pc = "done"
     /\ dispatch.http.kind = "json"
     /\ Recipients(dispatch.http.body) \cap dispatch.chan = {})
    => \A r \in Recipients(dispatch.http.body) :
          /\ r \notin dispatch.muted =>
                /\ Cardinality(CallsTo(r)) = 1
                /\ \A i \in CallsTo(r) : dispatch.calls[i].ok
          /\ r \in dispatch.muted => CallsTo(r) = {}

\* the text of a target, seat or challenger value as it reads in a message
Shown(v) == IF v.t = "int" THEN IntToStr(v.n) ELSE v.s

\* a duelRequest event with a user as target, a seat and a challenger
FullRequest(f) ==
    /\ f.handler = "duelRequest" /\ f.data.isDict
    /\ f.data.challengedId.t \in {"int", "str"}
    /\ f.data.seatId.t = "int"
    /\ f.data.challengerName.t = "str"

\* C10: a duelRequest event for a target whose notifications are enabled
\* makes exactly one send_message call, addressed to the target, whose
\* text carries the seat and the challenger.
C10_RequestDelivered ==
    (feed.pc = "returned" /\ FullRequest(feed) /\ ~feed.muted) =>
        /\ Len(feed.calls) = 1
        /\ feed.calls[1].kind = "duel"
        /\ feed.calls[1].chat_id = Shown(feed.data.challengedId)
        /\ feed.calls[1].seat = Shown(feed.data.seatId)
        /\ feed.calls[1].challenger = Shown(feed.data.challengerName)

\* such an event was delivered to a target who never used /notify
C10_Witness ==
    /\ feed.pc = "returned" /\ FullRequest(feed)
    /\ Shown(feed.data.challengedId) \notin DOMAIN notifications_state
    /\ Len(feed.calls) = 1
    /\ feed.log = <<"Delivered">>

\* C11: a feed notification whose target had notifications switched off at
\* the mute check makes no send_message call.
C11_MutedFeedNotSent == feed.muted => feed.calls = <<>>

\* a handler has returned after it found its target switched off
C11_Witness ==
    /\ feed.pc = "returned" /\ feed.muted
    /\ feed.log = <<"Skipped-Muted">>

\* the chats a broadcast made a send_message call to
Attempted(d) == {str(d.calls[i].chat_id) : i \in 1..Len(d.calls)}

\* C12: two successive broadcasts whose directory fetches return different
\* recipient sets deliver to different recipient sets.
C12_FreshDirectory ==
    [][(/\ dispatch.pc = "done" /\ dispatch'.pc = "done"
        /\ dispatch.http.kind = "json" /\ dispatch'.http.kind = "json"
        /\ Recipients(dispatch.http.body) # Recipients(dispatch'.http.body))
       => Attempted(dispatch') # Attempted(dispatch)]_vars

\* C13: after two consecutive /notify toggles by one recipient the
\* recipient's notification state is what it was before the first of them,
\* also when the recipient had no entry before.
C13_DoubleToggle ==
    \A u \in UserIds :
        Len(hist[u]) >= 2 =>
            /\ Effective(notifications_state, IntToStr(u)) = hist[u][Len(hist[u]) - 1]
            /\ \A i \in 1..(Len(hist[u]) - 2) : hist[u][i + 2] = hist[u][i]

\* a recipient has toggled twice from no entry, from a False entry and
\* from a True entry
C13_Witness ==
    \E u \in UserIds :
        /\ Len(hist[u]) = 4
        /\ hist[u] = <<TRUE, FALSE, TRUE, FALSE>>
        /\ notifications_state[IntToStr(u)] = TRUE
        /\ toggle_pc[u] = "idle"

\* C14: with toggles of different recipients and feed handlers in flight
\* together no update is lost: each recipient's state has been flipped as
\* many times as that recipient toggled.
C14_NoLostUpdate ==
    \A u \in UserIds :
        /\ Effective(notifications_state, IntToStr(u)) = (Len(hist[u]) % 2 = 0)
        /\ (IntToStr(u) \in DOMAIN notifications_state) = (Len(hist[u]) > 0)

\* two recipients' toggles are awaiting their reply while a feed handler
\* that has read the state is awaiting its send
C14_Witness ==
    /\ \E u, v \in UserIds :
          u # v /\ toggle_pc[u] = "reply" /\ toggle_pc[v] = "reply"
    /\ feed.pc = "send"
    /\ feed.telegram_id \in DOMAIN notifications_state

\* C15: the mute check of a feed handler sees the recipient's state as the
\* toggles completed so far have left it: after an odd number of flips
\* (switched off) no delivery call is made, after an even number the event
\* is not skipped.
C15_CheckSeesToggles ==
    feed.flips >= 0 =>
        /\ feed.flips % 2 = 1 =>
              /\ feed.calls = <<>>
              /\ feed.pc # "send"
              /\ feed.log = <<"Skipped-Muted">>
        /\ feed.flips % 2 = 0 => feed.log # <<"Skipped-Muted">>

\* a handler whose check came after the finished toggle that switched its
\* target off has returned without a call
C15_Witness ==
    /\ feed.pc = "returned" /\ feed.flips = 1 /\ feed.calls = <<>>
    /\ \E u \in UserIds :
          /\ IntToStr(u) = feed.telegram_id
          /\ toggle_pc[u] = "idle" /\ Len(hist[u]) = 1

\* C17: a feed handler that has reached its send eventually returns to the
\* socket thread, also when the channel never answers.
C17_HandlerReturns == (feed.pc = "send") ~> (feed.pc = "returned")

\* the event loops that are open, and the handler invocations under way
OpenLoops == IF feed.loop = "open" THEN 1 ELSE 0
Executing == IF feed.pc \in {"idle", "returned"} THEN 0 ELSE 1

\* C18: the event loop a feed handler created is closed when the handler
\* has returned, on every path; there are never more open loops than
\* handler invocations under way.
C18_LoopsClosed ==
    /\ feed.pc = "returned" => feed.loop # "open"
    /\ OpenLoops <= Executing

\* a handler that created a loop and whose delivery failed has returned
C18_Witness ==
    /\ feed.pc = "returned" /\ feed.loop = "closed"
    /\ feed.log = <<"Failed">> /\ Len(feed.calls) = 1
    /\ priorBad

\* C19: only a /notify toggle changes the mute state, and it changes the
\* entry of its sender alone; feed handlers and broadcasts leave the whole
\* mute state as it is, and nothing changes notifications_enabled.
C19_Frame ==
    [][/\ notifications_enabled' = notifications_enabled
       /\ notifications_state' # notifications_state =>
            \E u \in UserIds :
                /\ toggle_pc[u] = "idle" /\ toggle_pc'[u] = "reply"
                /\ feed' = feed /\ dispatch' = dispatch
                /\ DOMAIN notifications_state' \ {IntToStr(u)}
                      = DOMAIN notifications_state \ {IntToStr(u)}
                /\ \A k \in DOMAIN notifications_state \ {IntToStr(u)} :
                      notifications_state'[k] = notifications_state[k]
       /\ (feed' # feed \/ dispatch' # dispatch) =>
            notifications_state' = notifications_state]_vars

\* two recipients have an entry, a feed handler has returned and a
\* broadcast has run
C19_Witness ==
    /\ Cardinality(DOMAIN notifications_state) >= 2
    /\ feed.pc = "returned" /\ Len(feed.calls) = 1
    /\ dispatch.pc = "done"

\* the directory body has an object without a usable telegramId
HasEntryWithoutId(body) ==
    \E i \in 1..Len(body) : ~Truthy(DictGet(body[i].telegramId, PyNone))

\* C20: a directory entry whose telegramId is missing or empty gets no
\* delivery call and does not abort the batch: every entry of the same
\* result that has an id gets its delivery attempt.
C20_MissingIdSkipped ==
    (/\ dispatch.pc = "done"
     /\ dispatch.http.kind = "json"
     /\ HasEntryWithoutId(dispatch.http.body))
    => /\ \A i \in 1..Len(dispatch.calls) : Truthy(dispatch.calls[i].chat_id)
       /\ \A r \in Recipients(dispatch.http.body) : CallsTo(r) # {}

\* the stored entry of a recipient is the negation of what its last /notify saw
Flipped(d, u) ==
    /\ IntToStr(u) \in DOMAIN d
    /\ d[IntToStr(u)] = ~hist[u][Len(hist[u])]

\* C21: toggle_notifications stores the flipped state before it sends the
\* reply and never rolls it back: while the reply is pending, and when the
\* reply has failed and the error is being reported, the recipient's stored
\* state is the negation of the state before the command, and the step that
\* ends the handler (reply sent, or error reported) leaves it so.
C21_NoRollback ==
    /\ [](\A u \in UserIds :
            toggle_pc[u] \in {"reply", "error_reply"} => Flipped(notifications_state, u))
    /\ [][\A u \in UserIds :
            (toggle_pc[u] \in {"reply", "error_reply"} /\ toggle_pc'[u] # toggle_pc[u])
                => Flipped(notifications_state', u)]_vars

\* the reply of a /notify that switched a recipient off has failed and the
\* handler is reporting the error, after an earlier /notify of the same
\* recipient that switched it on went through
C21_Witness ==
    \E u \in UserIds :
        /\ toggle_pc[u] = "error_reply"
        /\ Len(hist[u]) = 3
        /\ hist[u][3] = TRUE
        /\ notifications_state[IntToStr(u)] = FALSE

====
